---------------------------- MODULE Spec2Model ----------------------------
(***************************************************************************)
(* SpiderGrow.io authoritative game server (src/unnamed/part_000, the      *)
(* tick-counting revision of src/server.js).                               *)
(*                                                                         *)
(* Numbers.  The server computes in IEEE doubles; the model computes in    *)
(* exact fixed point with Scale units per map unit, so that                *)
(* RADIUS_PER_POINT = 0.6 = 3/Scale is an integer number of units and      *)
(* every radius INITIAL_RADIUS + score * 0.6 is exact.  A distance is held *)
(* as its square (Math.sqrt is monotone, every comparison of the source is *)
(* rewritten on squares).  NaN is a distinguished value that every         *)
(* comparison rejects and Math.min / Math.max propagate.                   *)
(*                                                                         *)
(* Randomness.  Math.random() is a nondeterministic choice: positions are  *)
(* drawn from RandomPoints, palette indices from 0..MaxColorIdx, and the   *)
(* regrowth coin is free.                                                  *)
(*                                                                         *)
(* Atomicity.  Node runs each handler and each gameLoop() call to          *)
(* completion, so each is one action.  What gameLoop did step by step is   *)
(* kept in the history variables pelletLog, pairLog and passes.            *)
(*                                                                         *)
(* Under SpecSteps the same gameLoop is taken one pass at a time, with the  *)
(* event loop free to run a handler wherever the body yields.              *)
(*                                                                         *)
(* Errors.  No handler catches and the process installs no                 *)
(* uncaughtException listener: a handler that throws ends the server.      *)
(*                                                                         *)
(* Client.  The page of the first socket (src/public/game.js) is modelled  *)
(* by its "state" handler; the broadcasts reach it in order through wire.  *)
(***************************************************************************)
EXTENDS Integers, Sequences, FiniteSets, TLC

VARIABLES
    players,      \* socket id -> player record          (part_000:36)
    keys,         \* Object.keys(players): insertion order of the ids
    pellets,      \* sequence of [id, x, y]               (part_000:37)
    tick,         \* tick counter                         (part_000:40)
    connected,    \* sockets currently connected
    closed,       \* sockets that have disconnected (their ids are never reused)
    nextPelletId, \* source of fresh ids for regrown pellets
    outbox,       \* messages emitted by the handler that ran last
    pelletLog,    \* history: the pellet checks of the last gameLoop, in order
    pairLog,      \* history: the pair evaluations of the last gameLoop, in order
    passes,       \* history: the world after pass 1 of the last gameLoop
    handled,      \* history: the number of socket events handled so far
    last,         \* history: the handler that ran last, with its arguments
    lastMove,     \* history: id -> what its last applied move and rename did
    quiet,        \* history: the state messages without pellets since the last with
    crashed,      \* a handler threw: the exception is uncaught, the process is gone
    wire,         \* the state messages on their way to the page of socket s1
    client,       \* state of that page: { players, pellets }   (game.js:14)
    pc            \* where the gameLoop call in progress stands; "idle": none is

vars == <<players, keys, pellets, tick, connected, closed, nextPelletId,
          outbox, pelletLog, pairLog, passes, handled, last, lastMove, quiet,
          crashed, wire, client, pc>>

---------------------------------------------------------------------------
(* Fixed point and program constants *)

Scale == 5

MAP_WIDTH == 4000 * Scale

MAP_HEIGHT == 4000 * Scale

INITIAL_RADIUS == 25 * Scale

\* 0.6 map units per point = 3 fixed-point units
RADIUS_PER_POINT == 3

\* 1200 in the source; scaled down so that the pellet array can be enumerated
MAX_PELLETS == 2

PELLET_REACH == 5 * Scale

PELLET_DIVISOR == 4

colors == <<"#00e5ff", "#ffb300", "#ff4081", "#b388ff", "#69f0ae">>

Anonyme == <<"A", "n", "o", "n", "y", "m", "e">>

NAME_MAX == 20

NaN == 0 - 99999999

\* Number.POSITIVE_INFINITY; its negation is -Infinity
Infinity == 88888888

---------------------------------------------------------------------------
(* Bounds of the exploration *)

\* gameLoop runs are explored MaxTick deep
MaxTick == 4

\* socket events (connection, move, setName, disconnect) are explored MaxEvents deep
MaxEvents == 2

\* the regrowth coin falls below 0.2 at most MaxRegrow times
MaxRegrow == 1

\* randomColor draws indices 0..MaxColorIdx of the palette
MaxColorIdx == 1

\* at most MaxInFlight state messages are on the wire
MaxInFlight == 1

SocketIds == {"s1", "s2", "s3"}

\* socket ids are fresh and interchangeable: the n-th connection is given the n-th
SocketRank(id) == CASE id = "s1" -> 1 [] id = "s2" -> 2 [] id = "s3" -> 3

Pt(x, y) == [x |-> x * Scale, y |-> y * Scale]

\* the points randomPosition() is observed to return
RandomPoints == {Pt(40, 40), Pt(100, 40)}

\* emit("move") with no argument: data is undefined
NoPayload == [undefined |-> TRUE]

\* the payloads of "move": an object holds its number-valued coordinates under
\* x and y and its string-valued ones under text; a coordinate it lacks is in
\* neither
MovePayloads == { Pt(10, 40), Pt(-500, 10000), [x |-> NaN, y |-> 40 * Scale],
                  [x |-> Infinity, y |-> 0 - Infinity],
                  [text |-> [y |-> <<"4", "x">>]],
                  NoPayload }

Str(s) == [type |-> "string", chars |-> s]

LongName == [i \in 1..22 |-> IF i = 21 THEN "y" ELSE "x"]

\* the arguments of "setName"
RawNames == { [type |-> "number", chars |-> <<>>],
              Str(<<" ", " ">>),
              Str(<<" ", "b", "o", " ">>),
              Str(LongName) }

---------------------------------------------------------------------------
(* Utilities *)

\* Math.min: NaN if either argument is NaN
MathMin(a, b) == IF a = NaN \/ b = NaN THEN NaN ELSE IF a < b THEN a ELSE b

\* Math.max: NaN if either argument is NaN
MathMax(a, b) == IF a = NaN \/ b = NaN THEN NaN ELSE IF a > b THEN a ELSE b

\* INITIAL_RADIUS + score * RADIUS_PER_POINT
radiusOf(score) == INITIAL_RADIUS + score * RADIUS_PER_POINT

\* distance(a, b), held as its square; NaN when a coordinate is NaN
distance(a, b) ==
    IF a.x = NaN \/ a.y = NaN \/ b.x = NaN \/ b.y = NaN
    THEN NaN
    ELSE (a.x - b.x) * (a.x - b.x) + (a.y - b.y) * (a.y - b.y)

\* d < len, for a distance d held as the square d2 (false on NaN)
LtLen(d2, len) == d2 # NaN /\ len > 0 /\ d2 < len * len

\* d <= len, for a distance d held as the square d2 (false on NaN)
LeLen(d2, len) == d2 # NaN /\ len >= 0 /\ d2 <= len * len

\* d < len * tenths / 10, for a distance d held as the square d2 (false on NaN)
LtTenths(d2, len, tenths) ==
    /\ d2 # NaN
    /\ tenths <= 10 => d2 < len * len
    /\ 10 * 10 * d2 < tenths * tenths * len * len

\* the whole score of the prey, not half of it
WholeScore(score) == score

\* Math.floor(score * 0.5)
HalfFloor(score) == score \div 2

randomPosition == RandomPoints

randomColor == { colors[i + 1] : i \in 0..MaxColorIdx }

IsSpace(c) == c \in {" ", "\t", "\n"}

RECURSIVE TrimStart(_)
TrimStart(s) == IF s # <<>> /\ IsSpace(Head(s)) THEN TrimStart(Tail(s)) ELSE s

RECURSIVE TrimEnd(_)
TrimEnd(s) ==
    IF s # <<>> /\ IsSpace(s[Len(s)]) THEN TrimEnd(SubSeq(s, 1, Len(s) - 1)) ELSE s

\* String.prototype.trim
Trim(s) == TrimEnd(TrimStart(s))

\* sanitizeName without the cut at 20 characters
sanitizeNameUncut(rawName) ==
    IF rawName.type # "string" THEN Anonyme
    ELSE IF Len(Trim(rawName.chars)) = 0 THEN Anonyme
    ELSE Trim(rawName.chars)

sanitizeName(rawName) ==
    IF rawName.type # "string" THEN Anonyme
    ELSE LET name == Trim(rawName.chars) IN
         IF Len(name) = 0 THEN Anonyme
         ELSE IF Len(name) > NAME_MAX THEN SubSeq(name, 1, NAME_MAX)
         ELSE name

IsDigit(c) == c \in {"0", "1", "2", "3", "4", "5", "6", "7", "8", "9"}

DigitValue(c) ==
    CASE c = "0" -> 0 [] c = "1" -> 1 [] c = "2" -> 2 [] c = "3" -> 3 [] c = "4" -> 4
      [] c = "5" -> 5 [] c = "6" -> 6 [] c = "7" -> 7 [] c = "8" -> 8 [] c = "9" -> 9

RECURSIVE DigitsValue(_)
DigitsValue(s) ==
    IF s = <<>> THEN 0
    ELSE 10 * DigitsValue(SubSeq(s, 1, Len(s) - 1)) + DigitValue(s[Len(s)])

\* ToNumber of a string, for the strings made of digits, spaces and letters:
\* 0 when it trims to nothing, its value when it trims to digits, NaN otherwise
StringToNumber(chars) ==
    LET s == Trim(chars) IN
    IF s = <<>> THEN 0
    ELSE IF \A i \in DOMAIN s : IsDigit(s[i]) THEN DigitsValue(s) * Scale
    ELSE NaN

\* ToNumber(data[f]), the number Math.min is given for the coordinate f of an
\* object payload: ToNumber(undefined) is NaN
Coord(data, f) ==
    IF f \in DOMAIN data THEN data[f]
    ELSE IF "text" \in DOMAIN data /\ f \in DOMAIN data.text
         THEN StringToNumber(data.text[f])
    ELSE NaN

\* neither NaN nor an infinity
IsFinite(v) == v \notin {NaN, Infinity, 0 - Infinity}

\* the array left as it was
SpliceNothing(seq, i) == seq

\* Array.prototype.splice(i, 1), i counted from 1
Splice(seq, i) == SubSeq(seq, 1, i - 1) \o SubSeq(seq, i + 1, Len(seq))

---------------------------------------------------------------------------
(* gameLoop, pass 1: players eat pellets *)

\* the test of one pellet by one player
PelletHit(player, p) == LtLen(distance(player, p), player.radius + PELLET_REACH)

\* Grow with the radius left as it was
GrowStale(player) == [player EXCEPT !.score = player.score + 1]

\* the body of the inner loop on a hit: the player grows by one point
Grow(player) ==
    [player EXCEPT !.score = player.score + 1,
                   !.radius = radiusOf(player.score + 1)]

\* PelletLoop that steps over the pellet next to one it has just removed
RECURSIVE PelletLoopSkips(_, _, _, _, _)
PelletLoopSkips(id, player, pel, i, log) ==
    IF i < 1 THEN [player |-> player, pellets |-> pel, log |-> log]
    ELSE LET p == pel[i]
             hit == PelletHit(player, p)
             entry == [player |-> id, rec |-> player, pellet |-> p, eaten |-> hit]
         IN  IF hit
             THEN PelletLoopSkips(id, Grow(player), Splice(pel, i), i - 2,
                                  Append(log, entry))
             ELSE PelletLoopSkips(id, player, pel, i - 1, Append(log, entry))

\* for (let i = pellets.length - 1; i >= 0; i--) for one player; i counts from 1
RECURSIVE PelletLoop(_, _, _, _, _)
PelletLoop(id, player, pel, i, log) ==
    IF i < 1 THEN [player |-> player, pellets |-> pel, log |-> log]
    ELSE LET p == pel[i]
             hit == PelletHit(player, p)
             entry == [player |-> id, rec |-> player, pellet |-> p, eaten |-> hit]
         IN  IF hit
             THEN PelletLoop(id, Grow(player), Splice(pel, i), i - 1,
                             Append(log, entry))
             ELSE PelletLoop(id, player, pel, i - 1, Append(log, entry))

\* for (const [, player] of Object.entries(players)), from the k-th key on
RECURSIVE PelletPass(_, _, _, _, _)
PelletPass(ps, ids, pel, k, log) ==
    IF k > Len(ids) THEN [players |-> ps, pellets |-> pel, log |-> log]
    ELSE LET r == PelletLoop(ids[k], ps[ids[k]], pel, Len(pel), log)
         IN  PelletPass([ps EXCEPT ![ids[k]] = r.player], ids, r.pellets,
                        k + 1, r.log)

---------------------------------------------------------------------------
(* gameLoop, pass 2: players eat players *)

\* Re <= Rp * 1.05
NoRealGap(Re, Rp) == 100 * Re <= 105 * Rp

\* fullContain with the prey's radius left out: d <= Re
centreInside(d2, Re, Rp) == LeLen(d2, Re)

\* d + Rp <= Re
fullContain(d2, Re, Rp) == LeLen(d2, Re - Rp)

\* d < Rp * 0.9
strongOverlap(d2, Rp) == LtTenths(d2, Rp, 9)

\* Respawned with the prey's score and radius carried over
RespawnedKeepsScore(prey, pos) ==
    [x |-> pos.x, y |-> pos.y, score |-> prey.score, radius |-> prey.radius,
     color |-> prey.color, name |-> prey.name]

\* the record written to players[preyId] on a kill
Respawned(prey, pos) ==
    [x |-> pos.x, y |-> pos.y, score |-> 0, radius |-> INITIAL_RADIUS,
     color |-> prey.color, name |-> prey.name]

\* Fed with the gain added twice
FedTwice(eater, gained) ==
    [eater EXCEPT !.score = eater.score + gained + gained,
                  !.radius = radiusOf(eater.score + gained + gained)]

\* the eater after a kill
Fed(eater, gained) ==
    [eater EXCEPT !.score = eater.score + gained,
                  !.radius = radiusOf(eater.score + gained)]

\* KillMessages with the two recipients exchanged
KillMessagesCrossed(eaterId, preyId, gained, prey) ==
    << [event |-> "youAtePlayer", to |-> preyId,
        data |-> [gained |-> gained, victimName |-> prey.name]],
       [event |-> "youDied", to |-> eaterId, data |-> [none |-> TRUE]] >>

\* the two notifications of a kill, in the order they are emitted
KillMessages(eaterId, preyId, gained, prey) ==
    << [event |-> "youAtePlayer", to |-> eaterId,
        data |-> [gained |-> gained, victimName |-> prey.name]],
       [event |-> "youDied", to |-> preyId, data |-> [none |-> TRUE]] >>

NoKill(ps) == [players |-> ps, kill |-> FALSE, eater |-> "", prey |-> "",
               gained |-> 0, sent |-> <<>>]

\* EvalPair without its two early skips (equal scores, no real gap)
EvalPairNoSkips(ps, idA, idB, pos) ==
    LET a == ps[idA]
        b == ps[idB]
        eaterId == IF a.score > b.score THEN idA ELSE idB
        preyId == IF eaterId = idA THEN idB ELSE idA
        eater == ps[eaterId]
        prey == ps[preyId]
        d == distance(eater, prey)
        gained == HalfFloor(prey.score)
    IN  IF ~fullContain(d, eater.radius, prey.radius) /\ ~strongOverlap(d, prey.radius)
        THEN NoKill(ps)
        ELSE [players |-> [ps EXCEPT ![eaterId] = Fed(eater, gained),
                                     ![preyId] = Respawned(prey, pos)],
              kill |-> TRUE, eater |-> eaterId, prey |-> preyId, gained |-> gained,
              sent |-> KillMessages(eaterId, preyId, gained, prey)]

\* the body of the pair loop for ids[i] = idA, ids[j] = idB; pos is the
\* value randomPosition() returns if the pair comes to a kill
EvalPair(ps, idA, idB, pos) ==
    IF idA \notin DOMAIN ps \/ idB \notin DOMAIN ps THEN NoKill(ps)
    ELSE
    LET a == ps[idA]
        b == ps[idB]
    IN  IF a.score = b.score THEN NoKill(ps)
        ELSE
        LET eaterId == IF a.score > b.score THEN idA ELSE idB
            preyId == IF eaterId = idA THEN idB ELSE idA
            eater == ps[eaterId]
            prey == ps[preyId]
            d == distance(eater, prey)
            Re == eater.radius
            Rp == prey.radius
        IN  IF NoRealGap(Re, Rp) THEN NoKill(ps)
            ELSE IF ~fullContain(d, Re, Rp) /\ ~strongOverlap(d, Rp) THEN NoKill(ps)
            ELSE
            LET gained == HalfFloor(prey.score)
            IN  [players |-> [ps EXCEPT ![eaterId] = Fed(eater, gained),
                                        ![preyId] = Respawned(prey, pos)],
                 kill |-> TRUE, eater |-> eaterId, prey |-> preyId,
                 gained |-> gained,
                 sent |-> KillMessages(eaterId, preyId, gained, prey)]

\* the pairs (i, j), i < j <= n, in the order of the two nested loops
RECURSIVE PairsFrom(_, _, _)
PairsFrom(i, j, n) ==
    IF i >= n THEN <<>>
    ELSE IF j > n THEN PairsFrom(i + 1, i + 2, n)
    ELSE <<<<i, j>>>> \o PairsFrom(i, j + 1, n)

Pairs(n) == PairsFrom(1, 2, n)

\* KillPass with a guard of one death per tick: a pair with a player that an
\* earlier pair of the tick has killed is skipped
RECURSIVE KillPassOneDeath(_, _, _, _, _)
KillPassOneDeath(ps, ids, k, log, out) ==
    LET prs == Pairs(Len(ids)) IN
    IF k > Len(prs) THEN {[players |-> ps, log |-> log, out |-> out]}
    ELSE LET idA == ids[prs[k][1]]
             idB == ids[prs[k][2]]
             dead == { log[j].prey : j \in { i \in DOMAIN log : log[i].kill } }
             Entry(r) == [a |-> idA, b |-> idB, pre |-> ps, post |-> r.players,
                          kill |-> r.kill, eater |-> r.eater, prey |-> r.prey,
                          gained |-> r.gained, sent |-> r.sent]
             Rest(r) == KillPassOneDeath(r.players, ids, k + 1,
                                         Append(log, Entry(r)), out \o r.sent)
             dry == EvalPair(ps, idA, idB, CHOOSE pos \in randomPosition : TRUE)
         IN  IF idA \in dead \/ idB \in dead THEN Rest(NoKill(ps))
             ELSE IF dry.kill
             THEN UNION { Rest(EvalPair(ps, idA, idB, pos)) : pos \in randomPosition }
             ELSE Rest(dry)

\* the pair loop from the k-th pair on, over the snapshot ids = Object.keys(players):
\* the set of its outcomes, one for every value randomPosition() may return
\* at every kill
RECURSIVE KillPass(_, _, _, _, _)
KillPass(ps, ids, k, log, out) ==
    LET prs == Pairs(Len(ids)) IN
    IF k > Len(prs) THEN {[players |-> ps, log |-> log, out |-> out]}
    ELSE LET idA == ids[prs[k][1]]
             idB == ids[prs[k][2]]
             Entry(r) == [a |-> idA, b |-> idB, pre |-> ps, post |-> r.players,
                          kill |-> r.kill, eater |-> r.eater, prey |-> r.prey,
                          gained |-> r.gained, sent |-> r.sent]
             Rest(r) == KillPass(r.players, ids, k + 1, Append(log, Entry(r)),
                                 out \o r.sent)
             dry == EvalPair(ps, idA, idB, CHOOSE pos \in randomPosition : TRUE)
         IN  IF dry.kill
             THEN UNION { Rest(EvalPair(ps, idA, idB, pos)) : pos \in randomPosition }
             ELSE Rest(dry)

---------------------------------------------------------------------------
(* The initial worlds *)

NoPlayers == [id \in {} |-> 0]

NoPasses == [ran |-> FALSE, players |-> NoPlayers, pellets |-> <<>>]

\* the socket whose page is modelled
Page == "s1"

\* lastMove of a player no move was applied to since it was created or respawned
NeverMoved == [r |-> -1, finite |-> FALSE, at |-> <<>>, named |-> <<>>]

\* generateInitialPellets(MAX_PELLETS): ids 0..count-1, random positions
generateInitialPellets ==
    { [i \in 1..MAX_PELLETS |-> [id |-> i - 1, x |-> f[i].x, y |-> f[i].y]] :
        f \in [1..MAX_PELLETS -> randomPosition] }

\* the module has loaded: no player, the initial pellets, tick 0
Startup ==
    /\ players = NoPlayers
    /\ keys = <<>>
    /\ pellets \in generateInitialPellets
    /\ tick = 0
    /\ connected = {}
    /\ closed = {}
    /\ nextPelletId = MAX_PELLETS
    /\ outbox = <<>>
    /\ pelletLog = <<>>
    /\ pairLog = <<>>
    /\ passes = NoPasses
    /\ handled = 0
    /\ last = [op |-> "startup"]
    /\ lastMove = NoPlayers
    /\ quiet = 0
    /\ crashed = FALSE
    /\ wire = <<>>
    /\ client = [players |-> NoPlayers, pellets |-> <<>>]
    /\ pc = "idle"

(***************************************************************************)
(* Worlds of a server that has been running for a long time.  Scores grow  *)
(* without bound (pellets regrow for ever), so the exploration also starts *)
(* from worlds that lie thousands of ticks after Startup: two players      *)
(* that never moved, s1 having eaten GrownScores pellets where it spawned, *)
(* s2 fewer, GrownTick ticks and GrownPelletId regrown pellets in.  The    *)
(* page of s1 holds the players of the last broadcast and the pellets of   *)
(* the last broadcast that carried them.                                   *)
(***************************************************************************)
GrownTick == 8000 + 3

GrownPelletId == 7 * 1000

\* the scores of s1 and of s2 in the grown worlds; -1: s2 has not connected
GrownScores == {<<125, 0>>, <<125, 50>>, <<3292, -1>>}

\* the pellet of the last broadcast that carried the pellets (tick GrownTick - 3):
\* regrown in that tick next to s1, eaten in the tick after
GrownPellet == [id |-> GrownPelletId - 1, x |-> Pt(40, 40).x, y |-> Pt(40, 40).y]

Seeded(pos, score, color) ==
    [x |-> pos.x, y |-> pos.y, score |-> score, radius |-> radiusOf(score),
     color |-> color, name |-> Anonyme]

Grown ==
    /\ \E sc \in GrownScores, pos \in randomPosition :
          /\ keys = IF sc[2] < 0 THEN <<"s1">> ELSE <<"s1", "s2">>
          /\ sc[2] < 0 => pos = Pt(40, 40)
          /\ players = [id \in (IF sc[2] < 0 THEN {"s1"} ELSE {"s1", "s2"}) |->
                           IF id = "s1" THEN Seeded(Pt(40, 40), sc[1], colors[1])
                           ELSE Seeded(pos, sc[2], colors[2])]
    /\ connected = DOMAIN players
    /\ pellets = <<>>
    /\ tick = GrownTick
    /\ closed = {}
    /\ nextPelletId = GrownPelletId
    /\ outbox = <<>>
    /\ pelletLog = <<>>
    /\ pairLog = <<>>
    /\ passes = NoPasses
    /\ handled = 0
    /\ last = [op |-> "startup"]
    /\ lastMove = [id \in DOMAIN players |-> NeverMoved]
    /\ quiet = GrownTick % PELLET_DIVISOR
    /\ crashed = FALSE
    /\ wire = <<>>
    /\ client = [players |-> players, pellets |-> <<GrownPellet>>]
    /\ pc = "idle"

---------------------------------------------------------------------------
(* The handlers *)

History0 == pelletLog' = <<>> /\ pairLog' = <<>> /\ passes' = NoPasses

Handled == handled < MaxEvents /\ handled' = handled + 1

\* the record written to players[socket.id] on connection
Fresh(pos, color) ==
    [x |-> pos.x, y |-> pos.y, score |-> 0, radius |-> INITIAL_RADIUS,
     color |-> color, name |-> Anonyme]

\* InitMessage sent with io.emit: to every socket
InitMessageToAll(id) ==
    [event |-> "init", to |-> "*",
     data |-> [id |-> id, map |-> [width |-> MAP_WIDTH, height |-> MAP_HEIGHT]]]

\* socket.emit("init", ...)
InitMessage(id) ==
    [event |-> "init", to |-> id,
     data |-> [id |-> id, map |-> [width |-> MAP_WIDTH, height |-> MAP_HEIGHT]]]

\* io.on("connection"): a socket with a fresh id connects
Connection(id) ==
    /\ ~crashed
    /\ id \notin connected \cup closed
    /\ \A other \in SocketIds \ (connected \cup closed) : SocketRank(id) <= SocketRank(other)
    /\ \E pos \in randomPosition, color \in randomColor :
          players' = [i \in DOMAIN players \cup {id} |->
                         IF i = id THEN Fresh(pos, color) ELSE players[i]]
    /\ keys' = Append(keys, id)
    /\ connected' = connected \cup {id}
    /\ outbox' = <<InitMessage(id)>>
    /\ History0
    /\ Handled
    /\ last' = [op |-> "connection", id |-> id]
    /\ lastMove' = [i \in DOMAIN players \cup {id} |->
                       IF i = id THEN NeverMoved ELSE lastMove[i]]
    /\ UNCHANGED <<pellets, tick, closed, nextPelletId, quiet, crashed, wire, client,
                   pc>>

\* Clamp into [0, limit]: the radius left out
ClampCentre(r, limit, v) == MathMax(0, MathMin(limit, v))

\* Math.max(r, Math.min(limit - r, v))
Clamp(r, limit, v) == MathMax(r, MathMin(limit - r, v))

\* Moved on a copy of the record: the player stays where it is
MovedNowhere(p, data) == p

\* the player after the body of the "move" handler
Moved(p, data) ==
    [p EXCEPT !.x = Clamp(p.radius, MAP_WIDTH, Coord(data, "x")),
              !.y = Clamp(p.radius, MAP_HEIGHT, Coord(data, "y"))]

\* data.x throws a TypeError: data is undefined
Throws(data) == data = NoPayload

\* Move without "if (!p) return": p.radius throws when the player is gone
MoveUnguarded(id, data) ==
    /\ ~crashed
    /\ id \in connected \cup closed
    /\ Handled
    /\ IF id \notin DOMAIN players \/ Throws(data)
       THEN crashed' = TRUE /\ UNCHANGED <<players, lastMove>>
       ELSE LET p == Moved(players[id], data) IN
            /\ players' = [players EXCEPT ![id] = p]
            /\ lastMove' = [lastMove EXCEPT ![id] =
                               [@ EXCEPT !.r = players[id].radius,
                                         !.finite = /\ IsFinite(Coord(data, "x"))
                                                    /\ IsFinite(Coord(data, "y")),
                                         !.at =
                                            <<Clamp(players[id].radius, MAP_WIDTH,
                                                    Coord(data, "x")),
                                              Clamp(players[id].radius, MAP_HEIGHT,
                                                    Coord(data, "y"))>>]]
            /\ UNCHANGED crashed
    /\ outbox' = <<>>
    /\ History0
    /\ last' = [op |-> "move", id |-> id, arg |-> data]
    /\ UNCHANGED <<keys, pellets, tick, connected, closed, nextPelletId, quiet,
                   wire, client,
                   pc>>

\* socket.on("move"), also for a socket whose player is gone
Move(id, data) ==
    /\ ~crashed
    /\ id \in connected \cup closed
    /\ Handled
    /\ IF id \notin DOMAIN players
       THEN UNCHANGED <<players, lastMove, crashed>>
       ELSE IF Throws(data)
       THEN crashed' = TRUE /\ UNCHANGED <<players, lastMove>>
       ELSE LET p == Moved(players[id], data) IN
            /\ players' = [players EXCEPT ![id] = p]
            /\ lastMove' = [lastMove EXCEPT ![id] =
                               [@ EXCEPT !.r = players[id].radius,
                                         !.finite = /\ IsFinite(Coord(data, "x"))
                                                    /\ IsFinite(Coord(data, "y")),
                                         !.at =
                                            <<Clamp(players[id].radius, MAP_WIDTH,
                                                    Coord(data, "x")),
                                              Clamp(players[id].radius, MAP_HEIGHT,
                                                    Coord(data, "y"))>>]]
            /\ UNCHANGED crashed
    /\ outbox' = <<>>
    /\ History0
    /\ last' = [op |-> "move", id |-> id, arg |-> data]
    /\ UNCHANGED <<keys, pellets, tick, connected, closed, nextPelletId, quiet,
                   wire, client,
                   pc>>

\* socket.on("setName"), also for a socket whose player is gone
SetName(id, rawName) ==
    /\ ~crashed
    /\ id \in connected \cup closed
    /\ Handled
    /\ IF id \notin DOMAIN players
       THEN UNCHANGED <<players, lastMove>>
       ELSE /\ players' = [players EXCEPT ![id].name = sanitizeName(rawName)]
            /\ lastMove' = [lastMove EXCEPT ![id].named = sanitizeName(rawName)]
    /\ outbox' = <<>>
    /\ History0
    /\ last' = [op |-> "setName", id |-> id, arg |-> rawName]
    /\ UNCHANGED <<keys, pellets, tick, connected, closed, nextPelletId, quiet,
                   crashed, wire, client,
                   pc>>

\* Disconnect without the delete
DisconnectKeepsRecord(id) ==
    /\ ~crashed
    /\ id \in connected
    /\ connected' = connected \ {id}
    /\ closed' = closed \cup {id}
    /\ outbox' = <<>>
    /\ History0
    /\ Handled
    /\ last' = [op |-> "disconnect", id |-> id]
    /\ UNCHANGED <<players, keys, lastMove, pellets, tick, nextPelletId, quiet,
                   crashed, wire, client,
                   pc>>

\* socket.on("disconnect")
Disconnect(id) ==
    /\ ~crashed
    /\ id \in connected
    /\ players' = [i \in DOMAIN players \ {id} |-> players[i]]
    /\ keys' = SelectSeq(keys, LAMBDA k : k # id)
    /\ connected' = connected \ {id}
    /\ closed' = closed \cup {id}
    /\ outbox' = <<>>
    /\ History0
    /\ Handled
    /\ last' = [op |-> "disconnect", id |-> id]
    /\ lastMove' = [i \in DOMAIN players \ {id} |-> lastMove[i]]
    /\ UNCHANGED <<pellets, tick, nextPelletId, quiet, crashed, wire, client,
                   pc>>

---------------------------------------------------------------------------
(* gameLoop *)

\* Regrow with the cap tested by <=
RegrowPastCap(pel, coin, pos, id) ==
    IF Len(pel) <= MAX_PELLETS /\ coin
    THEN Append(pel, [id |-> id, x |-> pos.x, y |-> pos.y])
    ELSE pel

\* pass 3: at most one new pellet, with a fresh id, when below the cap and
\* the coin falls below 0.2
Regrow(pel, coin, pos, id) ==
    IF Len(pel) < MAX_PELLETS /\ coin
    THEN Append(pel, [id |-> id, x |-> pos.x, y |-> pos.y])
    ELSE pel

\* the broadcast of src/server.js: the pellets on every tick
StateMessageFull(t, ps, pel) ==
    [event |-> "state", to |-> "*", data |-> [players |-> ps, pellets |-> pel]]

\* pass 4: players always, pellets when tick % 4 = 0
StateMessage(t, ps, pel) ==
    [event |-> "state", to |-> "*",
     data |-> IF t % PELLET_DIVISOR = 0
              THEN [players |-> ps, pellets |-> pel]
              ELSE [players |-> ps]]

\* where the exploration of ticks and of regrowth starts counting
TickBase == IF tick >= GrownTick THEN GrownTick ELSE 0

PelletIdBase == IF nextPelletId >= GrownPelletId THEN GrownPelletId ELSE MAX_PELLETS

\* the draws of pass 3: the coin (Math.random() < 0.2) and the position
RegrowDraws(budgetLeft) ==
    {[coin |-> FALSE, pos |-> CHOOSE pos \in randomPosition : TRUE]} \cup
    IF budgetLeft THEN {[coin |-> TRUE, pos |-> pos] : pos \in randomPosition}
    ELSE {}

\* lastMove after a gameLoop: a respawn makes a new record, never moved
AfterKills(log) ==
    [id \in DOMAIN lastMove |->
        IF \E k \in DOMAIN log : log[k].kill /\ log[k].prey = id
        THEN [lastMove[id] EXCEPT !.r = NeverMoved.r, !.finite = NeverMoved.finite]
        ELSE lastMove[id]]

\* Resolve with the pair loop run on the players as they were before the
\* pellet pass
ResolveKillsFirst(ps, ids, pel) ==
    LET eat == PelletPass(ps, ids, pel, 1, <<>>) IN
    { [eat |-> eat, kill |-> kill] : kill \in KillPass(ps, ids, 1, <<>>, <<>>) }

\* passes 1 and 2: the pellet pass, then the pair loop on the players it leaves
Resolve(ps, ids, pel) ==
    LET eat == PelletPass(ps, ids, pel, 1, <<>>) IN
    { [eat |-> eat, kill |-> kill] :
        kill \in KillPass(eat.players, ids, 1, <<>>, <<>>) }

\* gameLoop(); page: the broadcast to the page of socket Page is followed
Tick(page) ==
    /\ ~crashed
    /\ tick - TickBase < MaxTick
    /\ page /\ Page \in connected => Len(wire) < MaxInFlight
    /\ \E r \in Resolve(players, keys, pellets),
          g \in RegrowDraws(nextPelletId - PelletIdBase < MaxRegrow) :
          LET eat == r.eat
              kill == r.kill
              grown == Regrow(eat.pellets, g.coin, g.pos, nextPelletId)
              msg == StateMessage(tick + 1, kill.players, grown)
          IN  /\ tick' = tick + 1
              /\ players' = kill.players
              /\ pellets' = grown
              /\ nextPelletId' = IF grown # eat.pellets THEN nextPelletId + 1
                                 ELSE nextPelletId
              /\ outbox' = kill.out \o <<msg>>
              /\ pelletLog' = eat.log
              /\ pairLog' = kill.log
              /\ passes' = [ran |-> TRUE, players |-> eat.players,
                            pellets |-> eat.pellets]
              /\ lastMove' = AfterKills(kill.log)
              /\ quiet' = IF "pellets" \in DOMAIN msg.data THEN 0 ELSE quiet + 1
              /\ wire' = IF page /\ Page \in connected THEN Append(wire, msg)
                         ELSE wire
    /\ last' = [op |-> "gameLoop"]
    /\ UNCHANGED <<keys, connected, closed, handled, crashed, client,
                   pc>>

\* setInterval(gameLoop, 50), the page left out
gameLoop == Tick(FALSE)

\* setInterval(gameLoop, 50), with the page of socket Page listening
gameLoopToPage == Tick(TRUE)

---------------------------------------------------------------------------
(* The page (src/public/game.js) *)

\* OnState with the pellets reset when the message has none
OnStateResets(state, serverState) ==
    [players |-> serverState.players,
     pellets |-> IF "pellets" \in DOMAIN serverState THEN serverState.pellets
                 ELSE <<>>]

\* the two assignments of the "state" handler; an object and an array, empty
\* or not, are truthy
OnState(state, serverState) ==
    [players |-> IF "players" \in DOMAIN serverState THEN serverState.players
                 ELSE state.players,
     pellets |-> IF "pellets" \in DOMAIN serverState THEN serverState.pellets
                 ELSE state.pellets]

\* socket.on("state"): the page handles the oldest message on the wire
ClientState ==
    /\ wire # <<>>
    /\ client' = OnState(client, Head(wire).data)
    /\ wire' = Tail(wire)
    /\ outbox' = <<>>
    /\ History0
    /\ last' = [op |-> "state", arg |-> Head(wire)]
    /\ UNCHANGED <<players, keys, pellets, tick, connected, closed, nextPelletId,
                   handled, lastMove, quiet, crashed, pc>>

---------------------------------------------------------------------------
(* gameLoop pass by pass, and the event loop *)

\* Yields for a gameLoop that awaits between its first two passes
YieldsBetweenPasses(at) == at = "kills"

\* the gameLoop call standing at `at` has given the event loop back: never,
\* gameLoop is a plain function and its body has no await
Yields(at) == FALSE

\* the event loop may run a handler: no gameLoop call is on the stack
Dispatchable == pc = "idle" \/ Yields(pc)

\* tick++ and pass 1
TickPellets ==
    /\ ~crashed
    /\ pc = "idle"
    /\ tick - TickBase < MaxTick
    /\ LET eat == PelletPass(players, keys, pellets, 1, <<>>) IN
       /\ players' = eat.players
       /\ pellets' = eat.pellets
       /\ pelletLog' = eat.log
       /\ passes' = [ran |-> TRUE, players |-> eat.players, pellets |-> eat.pellets]
    /\ tick' = tick + 1
    /\ pairLog' = <<>>
    /\ outbox' = <<>>
    /\ last' = [op |-> "gameLoop"]
    /\ pc' = "kills"
    /\ UNCHANGED <<keys, connected, closed, nextPelletId, handled, lastMove, quiet,
                   crashed, wire, client>>

\* pass 2, over Object.keys(players) as it is when the pass begins
TickKills ==
    /\ pc = "kills"
    /\ \E kill \in KillPass(players, keys, 1, <<>>, <<>>) :
          /\ players' = kill.players
          /\ pairLog' = kill.log
          /\ outbox' = outbox \o kill.out
          /\ lastMove' = AfterKills(kill.log)
    /\ pc' = "regrow"
    /\ UNCHANGED <<keys, pellets, tick, connected, closed, nextPelletId, pelletLog,
                   passes, handled, last, quiet, crashed, wire, client>>

\* pass 3
TickRegrow ==
    /\ pc = "regrow"
    /\ \E g \in RegrowDraws(nextPelletId - PelletIdBase < MaxRegrow) :
          LET grown == Regrow(pellets, g.coin, g.pos, nextPelletId) IN
          /\ pellets' = grown
          /\ nextPelletId' = IF grown # pellets THEN nextPelletId + 1
                             ELSE nextPelletId
    /\ pc' = "broadcast"
    /\ UNCHANGED <<players, keys, tick, connected, closed, outbox, pelletLog,
                   pairLog, passes, handled, last, lastMove, quiet, crashed, wire,
                   client>>

\* pass 4, and the return
TickBroadcast ==
    /\ pc = "broadcast"
    /\ LET msg == StateMessage(tick, players, pellets) IN
       /\ outbox' = outbox \o <<msg>>
       /\ quiet' = IF "pellets" \in DOMAIN msg.data THEN 0 ELSE quiet + 1
    /\ pc' = "idle"
    /\ UNCHANGED <<players, keys, pellets, tick, connected, closed, nextPelletId,
                   pelletLog, pairLog, passes, handled, last, lastMove, crashed,
                   wire, client>>

\* the handlers of the sockets
SocketEvent ==
    \/ \E id \in SocketIds : Connection(id)
    \/ \E id \in SocketIds, data \in MovePayloads : Move(id, data)
    \/ \E id \in SocketIds, rawName \in RawNames : SetName(id, rawName)
    \/ \E id \in SocketIds : Disconnect(id)

Next ==
    \/ SocketEvent
    \/ gameLoop

Init == Startup \/ Grown

\* the server
Spec == Init /\ [][Next]_vars

NextPage ==
    \/ SocketEvent
    \/ gameLoopToPage
    \/ ClientState

\* the server and the page of the first socket
SpecPage == Init /\ [][NextPage]_vars

NextSteps ==
    \/ Dispatchable /\ SocketEvent
    \/ TickPellets
    \/ TickKills
    \/ TickRegrow
    \/ TickBroadcast

\* the server, its gameLoop taken pass by pass
SpecSteps == Init /\ [][NextSteps]_vars

---------------------------------------------------------------------------
(* Properties *)

Present == DOMAIN players

\* the last handler was gameLoop
Ticked == last.op = "gameLoop"

\* the pairs of the last gameLoop that came to a kill
Kills == { k \in DOMAIN pairLog : pairLog[k].kill }

\* the centre distance of two records, squared; -1 when a coordinate is NaN
Gap2(a, b) ==
    IF NaN \in {a.x, a.y, b.x, b.y} THEN -1
    ELSE (a.x - b.x) * (a.x - b.x) + (a.y - b.y) * (a.y - b.y)

\* C1: every player's radius is INITIAL_RADIUS + score * RADIUS_PER_POINT and its
\* score is a non-negative integer, in every reachable state.
C1_RadiusFollowsScore ==
    \A id \in Present :
        /\ players[id].score \in Nat
        /\ players[id].radius = INITIAL_RADIUS + players[id].score * RADIUS_PER_POINT

\* a gameLoop in which a player ate a pellet and a kill fed its eater
C1_Witness ==
    /\ Ticked
    /\ \E k \in DOMAIN pelletLog : pelletLog[k].eaten
    /\ \E k \in Kills : pairLog[k].gained > 0

\* the kill condition of the claim on the two records a pair is evaluated on
KillDue(a, b) ==
    LET hi == IF a.score > b.score THEN a ELSE b
        lo == IF a.score > b.score THEN b ELSE a
        d2 == Gap2(hi, lo)
    IN  /\ a.score # b.score
        /\ 100 * hi.radius > 105 * lo.radius
        /\ d2 >= 0
        /\ \/ hi.radius >= lo.radius /\ d2 <= (hi.radius - lo.radius) * (hi.radius - lo.radius)
           \/ d2 < lo.radius * lo.radius /\ 100 * d2 < 81 * lo.radius * lo.radius

\* C2: a pair comes to a kill exactly when, on the records read for it, the scores
\* differ, the higher score's radius exceeds 1.05 times the other's, and the prey
\* is fully contained or its centre is nearer than 0.9 of its radius; the eater
\* is the member with the strictly higher score.
C2_KillIffCondition ==
    \A k \in DOMAIN pairLog :
        LET e == pairLog[k]
            a == e.pre[e.a]
            b == e.pre[e.b]
        IN  /\ e.kill <=> KillDue(a, b)
            /\ e.kill => /\ {e.eater, e.prey} = {e.a, e.b}
                         /\ e.pre[e.eater].score > e.pre[e.prey].score

\* a kill by full containment alone, and a pair with a real gap and no kill
C2_Witness ==
    /\ \E k \in Kills :
          LET e == pairLog[k] IN
          Gap2(e.pre[e.eater], e.pre[e.prey]) >=
              e.pre[e.prey].radius * e.pre[e.prey].radius
    /\ \E k \in DOMAIN pairLog \ Kills :
          LET e == pairLog[k] IN
          100 * e.pre[e.a].radius > 105 * e.pre[e.b].radius

\* C3: a kill adds floor(prey.score * 0.5) to the eater's score and recomputes its
\* radius; the prey's record becomes score 0, radius INITIAL_RADIUS, a position
\* inside the map, with the colour and name it had; the eater keeps its
\* position, colour and name.
C3_KillEffect ==
    \A k \in Kills :
        LET e == pairLog[k]
            eater == e.pre[e.eater]
            prey == e.pre[e.prey]
            fed == e.post[e.eater]
            born == e.post[e.prey]
        IN  /\ fed.score = eater.score + (prey.score \div 2)
            /\ fed.radius = INITIAL_RADIUS + fed.score * RADIUS_PER_POINT
            /\ <<fed.x, fed.y, fed.color, fed.name>> =
                   <<eater.x, eater.y, eater.color, eater.name>>
            /\ born.score = 0
            /\ born.radius = INITIAL_RADIUS
            /\ born.x >= 0 /\ born.x < MAP_WIDTH
            /\ born.y >= 0 /\ born.y < MAP_HEIGHT
            /\ born.color = prey.color
            /\ born.name = prey.name

\* a kill of a renamed prey with a positive score, respawned somewhere else
C3_Witness ==
    \E k \in Kills :
        LET e == pairLog[k] IN
        /\ e.pre[e.prey].score >= 2
        /\ e.pre[e.prey].name # Anonyme
        /\ e.post[e.prey].x # e.pre[e.prey].x

\* the checks of a pellet log that ended with the pellet eaten
Eaten(log) == { k \in DOMAIN log : log[k].eaten }

PelletIds(pel) == { pel[k].id : k \in DOMAIN pel }

\* what one step must satisfy for C4
C4_step ==
    Ticked' =>
        LET log == pelletLog'
            after == passes'
        IN  /\ \A k \in DOMAIN log :
                  log[k].eaten <=>
                      /\ Gap2(log[k].rec, log[k].pellet) >= 0
                      /\ Gap2(log[k].rec, log[k].pellet) <
                           (log[k].rec.radius + 5 * Scale) * (log[k].rec.radius + 5 * Scale)
            /\ \A k \in Eaten(log) : \A j \in DOMAIN log :
                  j > k => log[j].pellet.id # log[k].pellet.id
            /\ \A id \in DOMAIN players :
                  after.players[id].score =
                      players[id].score +
                      Cardinality({ k \in Eaten(log) : log[k].player = id })
            /\ PelletIds(after.pellets) =
                   PelletIds(pellets) \ { log[k].pellet.id : k \in Eaten(log) }
            /\ Len(after.pellets) = Len(pellets) - Cardinality(Eaten(log))

\* C4: in the pellet pass a pellet is eaten exactly when it is found nearer than
\* radius + 5 of the player checking it; it then adds 1 to that player's score
\* and is gone for every later check, so no pellet has two consumers and the
\* pellets removed are as many as the points gained.
C4_OneConsumerPerPellet == [][C4_step]_vars

\* one player ate two pellets in one pass, within reach of a later player too
C4_Witness ==
    /\ Ticked
    /\ \E j, k \in Eaten(pelletLog) :
          /\ j # k
          /\ pelletLog[j].player = pelletLog[k].player
          /\ \E id \in Present \ {pelletLog[k].player} :
                Gap2(players[id], pelletLog[k].pellet) = 0

\* what one step must satisfy for C5
C5_step ==
    /\ Len(pellets') <= Len(pellets) + 1
    /\ Ticked' /\ Len(pellets') > Len(passes'.pellets) =>
           Len(passes'.pellets) < MAX_PELLETS
    /\ ~Ticked' => pellets' = pellets

\* C5: startup leaves exactly MAX_PELLETS pellets; the count never exceeds
\* MAX_PELLETS; a tick raises it by at most 1, and only from below MAX_PELLETS;
\* no handler but gameLoop changes the pellets.
C5_PelletCap ==
    /\ [](Len(pellets) <= MAX_PELLETS)
    /\ [](tick = 0 => Len(pellets) = MAX_PELLETS)
    /\ [][C5_step]_vars

\* a gameLoop whose regrowth added a pellet, filling the array to the cap
C5_Witness ==
    /\ Ticked
    /\ Len(pellets) = Len(passes.pellets) + 1
    /\ Len(pellets) = MAX_PELLETS

\* the last handler was "move", applied to a player that is present, with
\* finite coordinates
MoveApplied ==
    /\ last'.op = "move"
    /\ last'.id \in Present
    /\ DOMAIN last'.arg = {"x", "y"}
    /\ IsFinite(last'.arg.x) /\ IsFinite(last'.arg.y)

\* v clamped into the interval [lo, hi]
ClampInto(lo, hi, v) == IF v < lo THEN lo ELSE IF v > hi THEN hi ELSE v

\* a move changes nothing but the mover's x and y
MoveFrame(id) ==
    /\ DOMAIN players' = DOMAIN players
    /\ \A other \in Present \ {id} : players'[other] = players[other]
    /\ [players'[id] EXCEPT !.x = 0, !.y = 0] = [players[id] EXCEPT !.x = 0, !.y = 0]
    /\ pellets' = pellets
    /\ keys' = keys

\* what one step must satisfy for C6 as claimed
C6_claimed_step ==
    MoveApplied =>
        LET id == last'.id
            r == players[id].radius
            now == players'[id]
        IN  /\ now.x = ClampInto(r, MAP_WIDTH - r, last'.arg.x)
            /\ now.y = ClampInto(r, MAP_HEIGHT - r, last'.arg.y)
            /\ r <= now.x /\ now.x <= MAP_WIDTH - r
            /\ r <= now.y /\ now.y <= MAP_HEIGHT - r
            /\ MoveFrame(id)

C6_step ==
    MoveApplied =>
        LET id == last'.id
            r == players[id].radius
            now == players'[id]
        IN  /\ 2 * r <= MAP_WIDTH =>
                  /\ now.x = ClampInto(r, MAP_WIDTH - r, last'.arg.x)
                  /\ r <= now.x /\ now.x <= MAP_WIDTH - r
            /\ 2 * r <= MAP_HEIGHT =>
                  /\ now.y = ClampInto(r, MAP_HEIGHT - r, last'.arg.y)
                  /\ r <= now.y /\ now.y <= MAP_HEIGHT - r
            /\ 2 * r > MAP_WIDTH => now.x = r
            /\ 2 * r > MAP_HEIGHT => now.y = r
            /\ MoveFrame(id)

InsideMap(p) ==
    /\ p.x # NaN /\ p.y # NaN
    /\ p.radius <= p.x /\ p.x <= MAP_WIDTH - p.radius
    /\ p.radius <= p.y /\ p.y <= MAP_HEIGHT - p.radius

\* C7: a player that had a move applied since it was created or respawned lies
\* inside the map for its current radius, in every later state.  Stated here
\* for the players whose last move was finite and whose radius still fits the
\* map, the cases in which the clamp itself left them inside.
C7_InsideAfterMove ==
    \A id \in Present :
        /\ lastMove[id].finite
        /\ 2 * players[id].radius <= MAP_WIDTH
        /\ 2 * players[id].radius <= MAP_HEIGHT
        => InsideMap(players[id])

\* C8: a pair whose scores are equal when it is evaluated changes no record and
\* emits nothing; a gameLoop whose players all have equal scores after the pellet
\* pass leaves the players as the pellet pass left them.
C8_EqualScoresUntouched ==
    /\ \A k \in DOMAIN pairLog :
          LET e == pairLog[k] IN
          e.pre[e.a].score = e.pre[e.b].score =>
              ~e.kill /\ e.post = e.pre /\ e.sent = <<>>
    /\ Ticked /\ (\A i, j \in DOMAIN passes.players :
                     passes.players[i].score = passes.players[j].score)
          => /\ players = passes.players
             /\ \A m \in DOMAIN outbox : outbox[m].event = "state"

\* two players with equal scores on the same spot went through the pair loop,
\* in a gameLoop whose pellet pass fed a third
C8_Witness ==
    /\ \E k \in DOMAIN pairLog :
          LET e == pairLog[k] IN
          /\ e.pre[e.a].score = e.pre[e.b].score
          /\ Gap2(e.pre[e.a], e.pre[e.b]) = 0
    /\ Eaten(pelletLog) # {}

StateMessages(box) == SelectSeq(box, LAMBDA m : m.event = "state")

HasPellets(m) == "pellets" \in DOMAIN m.data

\* what one step must satisfy for C9
C9_step ==
    LET msgs == StateMessages(outbox') IN
    /\ ~Ticked' => msgs = <<>>
    /\ Ticked' =>
          /\ tick' = tick + 1
          /\ Len(msgs) = 1
          /\ msgs[1].to = "*"
          /\ msgs[1].data.players = players'
          /\ HasPellets(msgs[1]) <=> tick' % 4 = 0
          /\ HasPellets(msgs[1]) => msgs[1].data.pellets = pellets' /\ quiet = 3
          /\ ~HasPellets(msgs[1]) => quiet < 3

\* C9: every gameLoop emits exactly one state message, to all, with the players;
\* it carries the pellets exactly when the tick number is a multiple of 4, so a
\* message with pellets follows exactly 3 without; no other handler emits one.
C9_PelletsEveryFourth == [][C9_step]_vars

\* the fourth gameLoop since startup broadcast players and pellets
C9_Witness ==
    /\ Ticked
    /\ tick = 4
    /\ Len(StateMessages(outbox)) = 1
    /\ HasPellets(StateMessages(outbox)[1])
    /\ Present # {}

KillEvents(box) == SelectSeq(box, LAMBDA m : m.event \in {"youAtePlayer", "youDied"})

RECURSIVE AllSent(_, _)
AllSent(log, k) == IF k > Len(log) THEN <<>> ELSE log[k].sent \o AllSent(log, k + 1)

\* C10: a kill emits one youAtePlayer to the eater, with gained =
\* floor(prey.score * 0.5) and the victim's name, and one youDied to the prey; a
\* pair without a kill emits nothing, and no handler but gameLoop emits either.
C10_NotificationsOnKills ==
    /\ \A k \in DOMAIN pairLog :
          LET e == pairLog[k] IN
          /\ ~e.kill => e.sent = <<>>
          /\ e.kill =>
                /\ Len(e.sent) = 2
                /\ e.sent[1].event = "youAtePlayer"
                /\ e.sent[1].to = e.eater
                /\ e.sent[1].data.gained = e.pre[e.prey].score \div 2
                /\ e.sent[1].data.victimName = e.pre[e.prey].name
                /\ e.sent[2].event = "youDied"
                /\ e.sent[2].to = e.prey
    /\ KillEvents(outbox) = AllSent(pairLog, 1)
    /\ ~Ticked => KillEvents(outbox) = <<>>

\* a gameLoop with two kills: four notifications, in the order of the pairs
C10_Witness ==
    /\ Ticked
    /\ Cardinality(Kills) = 2
    /\ Len(KillEvents(outbox)) = 4
    /\ \E m \in DOMAIN outbox :
          outbox[m].event = "youAtePlayer" /\ outbox[m].data.gained > 0

\* the name the claim gives for a raw value: "Anonyme" for a non-string or a
\* blank string, otherwise the first 20 characters of what lies between the
\* first and the last character that is not white space
NameFor(raw) ==
    IF raw.type # "string" THEN <<"A", "n", "o", "n", "y", "m", "e">>
    ELSE LET s == raw.chars
             ink == { i \in DOMAIN s : s[i] \notin {" ", "\t", "\n"} }
         IN  IF ink = {} THEN <<"A", "n", "o", "n", "y", "m", "e">>
             ELSE LET lo == CHOOSE i \in ink : \A j \in ink : i <= j
                      hi == CHOOSE i \in ink : \A j \in ink : i >= j
                      n == IF hi - lo + 1 > 20 THEN 20 ELSE hi - lo + 1
                  IN  [i \in 1..n |-> s[lo + i - 1]]

\* what one step must satisfy for C11
C11_step ==
    last'.op = "setName" /\ last'.id \in Present =>
        LET id == last'.id IN
        /\ players'[id].name = NameFor(last'.arg)
        /\ DOMAIN players' = DOMAIN players
        /\ [players' EXCEPT ![id].name = players[id].name] = players
        /\ pellets' = pellets /\ keys' = keys /\ tick' = tick

\* C11: setName stores "Anonyme" for a raw value that is no string or trims to
\* nothing, otherwise the first 20 characters of the trimmed value, and changes
\* nothing but the sender's name; every name is non-empty and at most 20 long.
C11_SetNameSanitizes ==
    /\ [](\A id \in Present : Len(players[id].name) \in 1..20)
    /\ [][C11_step]_vars

\* a name of 22 characters was sent and its first 20 are stored
C11_Witness ==
    /\ last.op = "setName"
    /\ last.id \in Present
    /\ Len(last.arg.chars) = 22
    /\ Len(players[last.id].name) = 20
    /\ players[last.id].name = SubSeq(last.arg.chars, 1, 20)

\* what one step must satisfy for C12
C12_step ==
    /\ last'.op = "disconnect" =>
          /\ last'.id \in Present
          /\ DOMAIN players' = Present \ {last'.id}
          /\ \A other \in Present \ {last'.id} : players'[other] = players[other]
          /\ pellets' = pellets
    /\ Present \ DOMAIN players' # {} => last'.op = "disconnect"
    /\ \A id \in SocketIds :
          id \notin Present /\ id \in DOMAIN players' =>
              /\ last' = [op |-> "connection", id |-> id]
              /\ id \notin closed

\* C12: the ids of the player mapping are the connected sockets, one record
\* each; disconnect removes the socket's record at once and nothing else; an id
\* that has disconnected is never in the mapping again, whatever a gameLoop
\* respawns.
C12_OneRecordPerConnection ==
    /\ [](/\ Present = connected
          /\ Present \cap closed = {}
          /\ Len(keys) = Cardinality(Present)
          /\ { keys[i] : i \in DOMAIN keys } = Present)
    /\ [][C12_step]_vars

\* a gameLoop respawned a player after another had disconnected
C12_Witness ==
    /\ Ticked
    /\ closed # {}
    /\ Kills # {}
    /\ Present # {}

\* what one step must satisfy for C13
C13_step ==
    last'.op \in {"move", "setName"} /\ last'.id \notin Present =>
        /\ players' = players
        /\ keys' = keys
        /\ pellets' = pellets
        /\ tick' = tick
        /\ outbox' = <<>>
        /\ ~crashed'

\* C13: a move or a setName handled for a socket whose id is not in the player
\* mapping changes no player and no pellet, creates no record and throws
\* nothing.
C13_GoneIsNoOp == [][C13_step]_vars

\* a move without payload was handled for a socket that has disconnected, and
\* the server goes on
C13_Witness ==
    /\ last.op = "move"
    /\ last.id \in closed
    /\ last.arg = NoPayload
    /\ Present # {}
    /\ ~crashed

\* what one step must satisfy for C14
C14_step ==
    /\ last'.op = "move"
    /\ last'.id \in Present
    /\ 2 * players[last'.id].radius <= MAP_WIDTH
    /\ 2 * players[last'.id].radius <= MAP_HEIGHT
    => LET r == players[last'.id].radius
           now == players'[last'.id]
       IN  /\ ~crashed'
           /\ IsFinite(now.x) /\ r <= now.x /\ now.x <= MAP_WIDTH - r
           /\ IsFinite(now.y) /\ r <= now.y /\ now.y <= MAP_HEIGHT - r

\* C14: whatever the payload of a move handled for a present player (out of
\* range, NaN, an infinity, a missing or non-numeric coordinate, no payload at
\* all), the handler throws nothing and leaves x and y finite, inside
\* [radius, MAP_WIDTH - radius] and [radius, MAP_HEIGHT - radius].  Stated for
\* the players whose radius fits the map.
C14_PayloadsRecovered == [][C14_step]_vars

InitMessages(box) == SelectSeq(box, LAMBDA m : m.event = "init")

\* what one step must satisfy for C15
C15_step ==
    /\ last'.op # "connection" => InitMessages(outbox') = <<>>
    /\ last'.op = "connection" =>
          LET id == last'.id
              new == players'[id]
          IN  /\ id \notin Present
              /\ DOMAIN players' = Present \cup {id}
              /\ new.score = 0
              /\ new.radius = 25 * Scale
              /\ new.name = <<"A", "n", "o", "n", "y", "m", "e">>
              /\ new.color \in {"#00e5ff", "#ffb300", "#ff4081", "#b388ff", "#69f0ae"}
              /\ 0 <= new.x /\ new.x < 4000 * Scale
              /\ 0 <= new.y /\ new.y < 4000 * Scale
              /\ \A other \in Present : players'[other] = players[other]
              /\ pellets' = pellets
              /\ outbox' = << [event |-> "init", to |-> id,
                               data |-> [id |-> id,
                                         map |-> [width |-> 4000 * Scale,
                                                  height |-> 4000 * Scale]]] >>

\* C15: a connection creates one record under the socket's id (score 0, radius
\* INITIAL_RADIUS, name "Anonyme", a colour of the palette, a position inside
\* the map), sends one init message with that id and the map's dimensions to
\* that socket alone, and changes no other player and no pellet; no other
\* handler sends an init message.
C15_JoinCreatesOne == [][C15_step]_vars

\* a socket joined a world that has a player with points and pellets
C15_Witness ==
    /\ last.op = "connection"
    /\ \E other \in Present \ {last.id} : players[other].score > 0
    /\ pellets # <<>>
    /\ Len(InitMessages(outbox)) = 1

\* what one step must satisfy for C16
C16_step ==
    /\ last'.op # "state" => client' = client
    /\ last'.op = "state" =>
          /\ wire # <<>>
          /\ last'.arg = Head(wire)
          /\ wire' = Tail(wire)
          /\ client'.players = Head(wire).data.players
          /\ HasPellets(Head(wire)) => client'.pellets = Head(wire).data.pellets
          /\ ~HasPellets(Head(wire)) => client'.pellets = client.pellets

\* C16: the page's pellets are those of the last state message that carried
\* pellets: a message without pellets leaves them as they are, a message with
\* pellets, an empty array too, replaces them; every state message replaces
\* the page's players.
C16_PageKeepsPellets == [][C16_step]_vars

\* the page took the pellet of one broadcast, then handled a broadcast without
\* pellets and still holds it, while the server has no pellet any more
C16_Witness ==
    /\ last.op = "state"
    /\ ~HasPellets(last.arg)
    /\ client.pellets # <<>>
    /\ client.pellets # <<GrownPellet>>
    /\ pellets = <<>>
    /\ client.players = players

\* the pass that follows a pass of gameLoop
PassAfter(at) ==
    CASE at = "kills" -> "regrow" [] at = "regrow" -> "broadcast"
      [] at = "broadcast" -> "idle"

\* what one step must satisfy for C17
C17_step ==
    /\ handled' # handled => pc = "idle" /\ pc' = "idle"
    /\ tick' # tick => pc = "idle" /\ pc' = "kills"
    /\ pc # "idle" =>
          /\ pc' = PassAfter(pc)
          /\ <<keys', connected', closed', handled', tick'>> =
                 <<keys, connected, closed, handled, tick>>
    /\ StateMessages(outbox') # <<>> /\ outbox' # outbox =>
          /\ pc = "broadcast"
          /\ passes.ran
          /\ outbox'[Len(outbox')].data.players = players'
          /\ HasPellets(outbox'[Len(outbox')]) =>
                 outbox'[Len(outbox')].data.pellets = pellets'
          /\ players' = players /\ pellets' = pellets

\* C17: a gameLoop call goes through its four passes without any handler or
\* other gameLoop call in between: a join, move, setName or disconnect is
\* handled only while no call is in progress, a call begins only then, and
\* the state message is emitted after the three passes that change the world.
C17_TicksAreAtomic == [][C17_step]_vars

\* a gameLoop call stands between its kill pass and its regrowth, a pellet
\* eaten and a player killed, while sockets could still send commands
C17_Witness ==
    /\ pc = "regrow"
    /\ Kills # {}
    /\ Eaten(pelletLog) # {}
    /\ connected # {}
    /\ handled < MaxEvents

\* the players a move was applied to since their record was made
MovedSince == { id \in Present : lastMove[id].r # -1 }

\* the players a move was ever applied to
MovedEver == { id \in Present : lastMove[id].at # <<>> }

\* the pairs of a log that come after a kill of id in the same log
AfterRespawn(log, id) ==
    { k \in DOMAIN log : \E j \in 1..(k - 1) : log[j].kill /\ log[j].prey = id }

\* the stored value is that of the later command: the position of the last
\* move since the record was made, the name of the last rename
LaterWins ==
    /\ \A id \in MovedSince : <<players[id].x, players[id].y>> = lastMove[id].at
    /\ \A id \in Present :
          lastMove[id].named # <<>> => players[id].name = lastMove[id].named

\* a gameLoop reads every player of `movers` where its last move put it, in
\* the pellet pass and in every pair outside `late`
ReadsLastMove(movers, late(_)) ==
    Ticked' =>
        \A id \in movers :
            /\ \A k \in DOMAIN pelletLog' :
                  pelletLog'[k].player = id =>
                      <<pelletLog'[k].rec.x, pelletLog'[k].rec.y>> = lastMove[id].at
            /\ \A k \in DOMAIN pairLog' \ late(id) :
                  id \in {pairLog'[k].a, pairLog'[k].b} =>
                      <<pairLog'[k].pre[id].x, pairLog'[k].pre[id].y>> =
                          lastMove[id].at

NoPairs(id) == {}

RespawnedBefore(id) == AfterRespawn(pairLog', id)

\* C18, as claimed: a gameLoop reads every player at the clamped result of the
\* last move handled for it before the tick began; of successive moves or
\* renames of a socket the later one is the stored value.
C18_Claimed ==
    /\ [][ReadsLastMove(MovedEver, NoPairs)]_vars
    /\ []LaterWins

\* C18, amended: as claimed for the players that have not been respawned since
\* that move, up to the pair in which the tick itself respawns them; a
\* respawned player is read at its respawn position.
C18_CommandsTakeEffect ==
    /\ [][ReadsLastMove(MovedSince, RespawnedBefore)]_vars
    /\ []LaterWins

\* a kill decided where a move handled before the tick had put the eater
C18_Witness ==
    /\ Ticked
    /\ \E k \in Kills :
          LET e == pairLog[k] IN
          /\ e.eater \in MovedSince
          /\ <<e.pre[e.eater].x, e.pre[e.eater].y>> = lastMove[e.eater].at
          /\ <<e.pre[e.eater].x, e.pre[e.eater].y>> # <<Pt(40, 40).x, Pt(40, 40).y>>

\* C19: every pair of the kill pass is decided on the records as the pairs
\* before it left them: the first on the players the pellet pass left, each
\* later one on the outcome of the one before, a respawned prey with score 0 and
\* radius INITIAL_RADIUS at its new position, an eater with its raised score
\* and radius; whether it kills depends on those records alone, so a player
\* respawned in the tick can be killed again in it.
C19_LiveRecordsPerPair ==
    /\ \A k \in DOMAIN pairLog :
          LET e == pairLog[k] IN
          /\ e.pre = IF k = 1 THEN passes.players ELSE pairLog[k - 1].post
          /\ e.kill <=> KillDue(e.pre[e.a], e.pre[e.b])
          /\ e.kill =>
                /\ e.post[e.prey].score = 0
                /\ e.post[e.prey].radius = 25 * Scale
                /\ e.post[e.eater].score = e.pre[e.eater].score + e.gained
                /\ e.post[e.eater].radius =
                       25 * Scale + 3 * e.post[e.eater].score
                /\ \A other \in DOMAIN e.pre \ {e.prey, e.eater} :
                       e.post[other] = e.pre[other]
          /\ ~e.kill => e.post = e.pre
    /\ Ticked /\ pairLog # <<>> => players = pairLog[Len(pairLog)].post

\* one player was killed twice in one gameLoop, by two eaters, the second
\* time where the first kill had respawned it
C19_Witness ==
    /\ Ticked
    /\ \E j, k \in Kills :
          /\ j < k
          /\ pairLog[j].prey = pairLog[k].prey
          /\ pairLog[j].eater # pairLog[k].eater
          /\ pairLog[k].pre[pairLog[k].prey].x = pairLog[j].post[pairLog[j].prey].x
          /\ pairLog[k].pre[pairLog[k].prey].x # pairLog[j].pre[pairLog[j].prey].x

\* what one step must satisfy for C20
C20_step ==
    Ticked' =>
        LET fed == passes'.players
            left == passes'.pellets
            box == outbox'
            msg == box[Len(box)]
        IN  \* 1: the pellet pass works on the pellets the tick began with
            /\ \A k \in DOMAIN pelletLog' :
                   pelletLog'[k].pellet.id \in PelletIds(pellets)
            /\ \A id \in Present :
                   fed[id].score = players[id].score +
                       Cardinality({ k \in Eaten(pelletLog') :
                                       pelletLog'[k].player = id })
            \* 2: the pair loop starts from the players the pellet pass left
            /\ pairLog' # <<>> => pairLog'[1].pre = fed
            /\ players' = IF pairLog' = <<>> THEN fed
                          ELSE pairLog'[Len(pairLog')].post
            \* 3: regrowth adds to what the pellet pass left; the new pellet stays
            /\ \/ pellets' = left
               \/ /\ Len(pellets') = Len(left) + 1
                  /\ SubSeq(pellets', 1, Len(left)) = left
                  /\ pellets'[Len(pellets')].id \notin PelletIds(pellets)
            \* 4: the state message comes last and shows the world after regrowth
            /\ box # <<>>
            /\ msg.event = "state"
            /\ msg.data.players = players'
            /\ HasPellets(msg) => msg.data.pellets = pellets'
            /\ \A m \in 1..(Len(box) - 1) : box[m].event # "state"

\* C20: a gameLoop eats pellets, then resolves the pairs, then regrows, then
\* broadcasts: the pairs are decided on the scores and radii the pellet pass of
\* the same tick left, a regrown pellet is not eaten in the tick that adds it,
\* and the state message shows the players and pellets after regrowth.
C20_PassOrder == [][C20_step]_vars

\* a kill that the eater's radius at the start of the tick did not allow: the
\* pellet it ate in the same gameLoop made the gap
C20_Witness ==
    /\ Ticked
    /\ \E k \in Kills : \E j \in Eaten(pelletLog) :
          LET e == pairLog[k] IN
          /\ pelletLog[j].player = e.eater
          /\ 100 * pelletLog[j].rec.radius <= 105 * e.pre[e.prey].radius
          /\ 100 * e.pre[e.eater].radius > 105 * e.pre[e.prey].radius

\* the messages of a box addressed to id, in order
SentTo(box, id) == SelectSeq(box, LAMBDA m : m.to = id)

\* C21: a player killed in a gameLoop has score 0 from its respawn to the end
\* of the tick, is the eater of no later kill of that tick, and is sent no
\* youAtePlayer after its youDied in that tick.
C21_DeadEatNothing ==
    /\ \A j \in Kills : \A k \in DOMAIN pairLog :
          k > j =>
              /\ pairLog[k].pre[pairLog[j].prey].score = 0
              /\ pairLog[k].post[pairLog[j].prey].score = 0
              /\ pairLog[k].kill => pairLog[k].eater # pairLog[j].prey
    /\ Ticked => \A j \in Kills : players[pairLog[j].prey].score = 0
    /\ \A id \in Present :
          LET mine == SentTo(outbox, id) IN
          \A m, n \in DOMAIN mine :
              mine[m].event = "youDied" /\ n > m => mine[n].event # "youAtePlayer"

\* a player killed in a gameLoop was respawned on top of a player without
\* points and met it in a later pair of the same tick
C21_Witness ==
    /\ Ticked
    /\ \E j \in Kills : \E k \in DOMAIN pairLog :
          LET e == pairLog[k] IN
          /\ k > j
          /\ pairLog[j].prey \in {e.a, e.b}
          /\ pairLog[j].eater \notin {e.a, e.b}
          /\ Gap2(e.pre[e.a], e.pre[e.b]) = 0
          /\ ~e.kill

\* the sum of the scores of a player mapping
RECURSIVE SumOver(_, _)
SumOver(ps, ids) ==
    IF ids = {} THEN 0
    ELSE LET id == CHOOSE i \in ids : TRUE
         IN  ps[id].score + SumOver(ps, ids \ {id})

TotalScore(ps) == SumOver(ps, DOMAIN ps)

\* what one step must satisfy for C22: outside gameLoop no score rises; the
\* pellet pass raises a score by 1 for every pellet the player eats
C22_step ==
    /\ ~Ticked' =>
          \A id \in Present \cap DOMAIN players' :
              players'[id].score = players[id].score
    /\ Ticked' =>
          /\ \A k \in DOMAIN pelletLog' :
                 LET e == pelletLog'[k]
                     later == { j \in DOMAIN pelletLog' :
                                  j > k /\ pelletLog'[j].player = e.player }
                     now == IF later = {} THEN passes'.players[e.player]
                            ELSE pelletLog'[CHOOSE j \in later :
                                               \A i \in later : j <= i].rec
                 IN  now.score = e.rec.score + (IF e.eaten THEN 1 ELSE 0)
          /\ TotalScore(passes'.players) =
                 TotalScore(players) + Cardinality(Eaten(pelletLog'))
          /\ TotalScore(players') <= TotalScore(passes'.players)

\* C22: a kill changes the sum of the scores by floor(prey.score * 0.5) -
\* prey.score, never upwards, so the kill pass leaves the sum no greater than
\* it found it; a score rises only by 1 for a pellet eaten or by
\* floor(prey.score * 0.5) for a kill.
C22_KillsNeverAddScore ==
    /\ [](\A k \in DOMAIN pairLog :
            LET e == pairLog[k] IN
            /\ e.kill =>
                  /\ TotalScore(e.post) - TotalScore(e.pre) =
                         (e.pre[e.prey].score \div 2) - e.pre[e.prey].score
                  /\ e.post[e.eater].score =
                         e.pre[e.eater].score + (e.pre[e.prey].score \div 2)
            /\ TotalScore(e.post) <= TotalScore(e.pre)
            /\ \A id \in DOMAIN e.pre :
                  e.post[id].score > e.pre[id].score => e.kill /\ id = e.eater)
    /\ [][C22_step]_vars

\* a gameLoop in which a pellet was eaten and the kill of a prey with points
\* left the sum of the scores lower than the pellet pass had left it
C22_Witness ==
    /\ Ticked
    /\ Eaten(pelletLog) # {}
    /\ \E k \in Kills : pairLog[k].gained > 0 /\ pairLog[k].pre[pairLog[k].prey].score % 2 = 0
    /\ TotalScore(players) < TotalScore(passes.players)

\* the place of a player in the order of the pellet pass
PlaceOf(id) == CHOOSE i \in DOMAIN keys : keys[i] = id

\* what one step must satisfy for C23
C23_step ==
    Ticked' =>
        LET log == pelletLog' IN
        /\ \A id \in Present : \A i \in DOMAIN passes'.pellets :
               LET d2 == Gap2(players[id], passes'.pellets[i])
                   reach == players[id].radius + 5 * Scale
               IN  ~(d2 >= 0 /\ d2 < reach * reach)
        /\ \A id \in Present :
               LET mine == { k \in DOMAIN log : log[k].player = id }
                   gone == { log[j].pellet.id :
                               j \in { i \in Eaten(log) :
                                         PlaceOf(log[i].player) < PlaceOf(id) } }
               IN  /\ { log[k].pellet.id : k \in mine } = PelletIds(pellets) \ gone
                   /\ Cardinality(mine) = Cardinality(PelletIds(pellets) \ gone)

\* C23: the pellet pass checks, for every player in turn, every pellet that is
\* left when its turn comes, once each, although it removes pellets as it goes;
\* at the end no pellet that is left lies nearer to a player than the radius
\* that player began the pass with, plus 5.
C23_NoPelletSkipped == [][C23_step]_vars

\* a player removed a pellet and went on to check another one, which a second
\* player then checked as well
C23_Witness ==
    /\ Ticked
    /\ \E j, k, m \in DOMAIN pelletLog :
          /\ j < k /\ k < m
          /\ pelletLog[j].player = pelletLog[k].player
          /\ pelletLog[j].eaten
          /\ pelletLog[m].player # pelletLog[k].player
          /\ pelletLog[m].pellet.id = pelletLog[k].pellet.id

=============================================================================
